---- MODULE Spec2Model ----
(***************************************************************************)
(* typed-index-collections: TiVec<K, V>, a wrapper around Vec<V> that is   *)
(* indexed by a key type K instead of usize (src/src/vec.rs).              *)
(*                                                                         *)
(* A Vec<V> is the record [buf, cap]: buf is the sequence of its elements  *)
(* (position p of the Vec is buf[p + 1]) and cap its capacity.  A          *)
(* TiVec<K, V> is the record [raw, _marker] of the struct.  K is the FooId *)
(* of the documentation examples, a struct of one usize field with the     *)
(* derived From<usize> and Into<usize>.                                    *)
(***************************************************************************)
EXTENDS Integers, Sequences, FiniteSets, TLC

\* Bound of the model: the elements the two vectors hold together.
MaxLen == 3

\* Bound of the model: the length of the vector an append takes its elements from.
MaxOther == 2

\* Bound of the model: the capacity asked of with_capacity and the additional
\* elements asked of reserve and reserve_exact.
MaxExtra == 2

\* The element values V ranges over (those of the documentation examples).
Values == {10, 11, 12}

\* The two TiVec bindings of the modelled program.
Targets == {"a", "b"}

Other(t) == IF t = "a" THEN "b" ELSE "a"

(***************************************************************************)
(* Values returned by the operations.                                      *)
(***************************************************************************)
Unit == [tag |-> "Unit"]

Panic == [tag |-> "Panic"]

None == [tag |-> "None"]

Some(x) == [tag |-> "Some", val |-> x]

Val(x) == [tag |-> "Val", val |-> x]

Items(s) == [tag |-> "Items", val |-> s]

\* Result::Ok and Result::Err
Ok(x) == [tag |-> "Ok", val |-> x]

Err(x) == [tag |-> "Err", val |-> x]

OwnedVec(v) == [tag |-> "Vec", val |-> v]

OwnedTiVec(v) == [tag |-> "TiVec", val |-> v]

(***************************************************************************)
(* The index type K: struct FooId(usize) with #[derive(From, Into)].       *)
(***************************************************************************)
FooId(n) == [field0 |-> n]

\* impl From<usize> for FooId
K_from_usize(n) == FooId(n)

\* impl From<FooId> for usize
usize_from_K(k) == k.field0

(***************************************************************************)
(* Vec<V>, the native vector every TiVec method forwards to.               *)
(***************************************************************************)
\* vec![...]: a Vec holding exactly s, allocated for exactly Len(s) elements
Vec_lit(s) == [buf |-> s, cap |-> Len(s)]

\* Vec::with_capacity
Vec_with_capacity(capacity) == [buf |-> <<>>, cap |-> capacity]

Max(x, y) == IF x >= y THEN x ELSE y

\* the Vec after Vec::reserve(additional): when the spare capacity is too small
\* the capacity grows to the larger of its double and the length needed, and to
\* no less than 4 elements (the amortized growth of a Vec of usize)
Reserved(v, additional) ==
    IF additional > v.cap - Len(v.buf)
    THEN [v EXCEPT !.cap = Max(4, Max(2 * v.cap, Len(v.buf) + additional))]
    ELSE v

Vec_reserve(v, additional) == [vec |-> Reserved(v, additional), ret |-> Unit]

\* Vec::reserve_exact: grows to exactly the length needed
Vec_reserve_exact(v, additional) ==
    [vec |-> IF additional > v.cap - Len(v.buf)
             THEN [v EXCEPT !.cap = Len(v.buf) + additional]
             ELSE v,
     ret |-> Unit]

Vec_shrink_to_fit(v) ==
    [vec |-> IF v.cap > Len(v.buf) THEN [v EXCEPT !.cap = Len(v.buf)] ELSE v,
     ret |-> Unit]

\* Vec::new()
Vec_new == Vec_lit(<<>>)

\* elements of s at positions [from, to)
Slice(s, from, to) == SubSeq(s, from + 1, to)

RECURSIVE Dedup(_)
Dedup(s) ==
    IF Len(s) <= 1 THEN s
    ELSE IF s[1] = s[2] THEN Dedup(Tail(s))
    ELSE <<s[1]>> \o Dedup(Tail(s))

RECURSIVE Repeat(_, _)
Repeat(x, n) == IF n <= 0 THEN <<>> ELSE <<x>> \o Repeat(x, n - 1)

Vec_push(v, value) ==
    [vec |-> [Reserved(v, 1) EXCEPT !.buf = Append(v.buf, value)], ret |-> Unit]

Vec_pop(v) ==
    IF v.buf = <<>> THEN [vec |-> v, ret |-> None]
    ELSE [vec |-> [v EXCEPT !.buf = Slice(v.buf, 0, Len(v.buf) - 1)],
          ret |-> Some(v.buf[Len(v.buf)])]

Vec_insert(v, index, element) ==
    IF index > Len(v.buf) THEN [vec |-> v, ret |-> Panic]
    ELSE [vec |-> [Reserved(v, 1) EXCEPT !.buf = Slice(v.buf, 0, index) \o <<element>>
                                                   \o Slice(v.buf, index, Len(v.buf))],
          ret |-> Unit]

Vec_remove(v, index) ==
    IF index >= Len(v.buf) THEN [vec |-> v, ret |-> Panic]
    ELSE [vec |-> [v EXCEPT !.buf = Slice(v.buf, 0, index)
                                      \o Slice(v.buf, index + 1, Len(v.buf))],
          ret |-> Val(v.buf[index + 1])]

Vec_swap_remove(v, index) ==
    IF index >= Len(v.buf) THEN [vec |-> v, ret |-> Panic]
    ELSE LET last == Len(v.buf)
             swapped == [v.buf EXCEPT ![index + 1] = v.buf[last]]
         IN  [vec |-> [v EXCEPT !.buf = Slice(swapped, 0, last - 1)],
              ret |-> Val(v.buf[index + 1])]

Vec_truncate(v, len) ==
    IF len > Len(v.buf) THEN [vec |-> v, ret |-> Unit]
    ELSE [vec |-> [v EXCEPT !.buf = Slice(v.buf, 0, len)], ret |-> Unit]

Vec_clear(v) == [vec |-> [v EXCEPT !.buf = <<>>], ret |-> Unit]

\* the predicates F: FnMut(&V) -> bool given to retain: x # c and x < c
Keeps(f, x) == IF f.rel = "ne" THEN x # f.c ELSE x < f.c

Vec_retain(v, f) ==
    [vec |-> [v EXCEPT !.buf = SelectSeq(v.buf, LAMBDA x : Keeps(f, x))], ret |-> Unit]

Vec_dedup(v) == [vec |-> [v EXCEPT !.buf = Dedup(v.buf)], ret |-> Unit]

Vec_resize(v, new_len, value) ==
    IF new_len > Len(v.buf)
    THEN [vec |-> [Reserved(v, new_len - Len(v.buf))
                       EXCEPT !.buf = v.buf \o Repeat(value, new_len - Len(v.buf))],
          ret |-> Unit]
    ELSE Vec_truncate(v, new_len)

\* self.append(&mut other): other is left empty and keeps its capacity
Vec_append(v, other) ==
    [vec |-> [Reserved(v, Len(other.buf)) EXCEPT !.buf = v.buf \o other.buf],
     other |-> [other EXCEPT !.buf = <<>>],
     ret |-> Unit]

Vec_split_off(v, at) ==
    IF at > Len(v.buf) THEN [vec |-> v, ret |-> Panic]
    ELSE [vec |-> [v EXCEPT !.buf = Slice(v.buf, 0, at)],
          ret |-> OwnedVec(Vec_lit(Slice(v.buf, at, Len(v.buf))))]

\* the bounds of a range, over K or over usize
Unbounded == [bound |-> "Unbounded"]

Included(x) == [bound |-> "Included", at |-> x]

Excluded(x) == [bound |-> "Excluded", at |-> x]

RangeOf(s, e) == [start |-> s, end |-> e]

\* core::slice::range: the half-open positions a usize range selects in a
\* sequence of length len, or Panic
ResolveRange(range, len) ==
    LET start == IF range.start = Unbounded THEN 0
                 ELSE IF range.start.bound = "Included" THEN range.start.at
                 ELSE range.start.at + 1
        end == IF range.end = Unbounded THEN len
               ELSE IF range.end.bound = "Included" THEN range.end.at + 1
               ELSE range.end.at
    IN  IF start > end \/ end > len THEN Panic
        ELSE [tag |-> "Range", start |-> start, end |-> end]

\* Vec::drain, the Drain consumed to its end and dropped
Vec_drain(v, range) ==
    LET r == ResolveRange(range, Len(v.buf))
    IN  IF r = Panic THEN [vec |-> v, ret |-> Panic]
        ELSE [vec |-> [v EXCEPT !.buf = Slice(v.buf, 0, r.start)
                                          \o Slice(v.buf, r.end, Len(v.buf))],
              ret |-> Items(Slice(v.buf, r.start, r.end))]

\* Vec::splice, the Splice consumed to its end and dropped: the range is removed
\* and yielded, replace_with takes its place, and the vector reserves the space
\* for the elements replace_with holds beyond those removed
Vec_splice(v, range, replace_with) ==
    LET r == ResolveRange(range, Len(v.buf))
    IN  IF r = Panic THEN [vec |-> v, ret |-> Panic]
        ELSE [vec |-> [Reserved(v, Len(replace_with) - (r.end - r.start))
                           EXCEPT !.buf = Slice(v.buf, 0, r.start) \o replace_with
                                              \o Slice(v.buf, r.end, Len(v.buf))],
              ret |-> Items(Slice(v.buf, r.start, r.end))]

\* <Vec<V> as Deref>::deref: the initialized elements, as a slice
Vec_deref(v) == v.buf

\* <[V] as Index<usize>>::index
Slice_index(s, index) == IF index >= Len(s) THEN Panic ELSE Val(s[index + 1])

\* <[V]>::get
Slice_get(s, index) == IF index >= Len(s) THEN None ELSE Some(s[index + 1])

IsSorted(s) == \A i \in 1 .. Len(s) - 1 : s[i] <= s[i + 1]

\* <[V]>::binary_search on a sorted slice, as the set of the results it may
\* give: Ok of the position of any one match or, without a match, Err of the
\* position at which x keeps the slice sorted
Slice_binary_search(s, x) ==
    IF \E i \in 1 .. Len(s) : s[i] = x
    THEN {Ok(i - 1) : i \in {j \in 1 .. Len(s) : s[j] = x}}
    ELSE {Err(Cardinality({j \in 1 .. Len(s) : s[j] < x}))}

\* <[V] as Index<R>>::index for a range R of positions
Slice_index_range(s, range) ==
    LET r == ResolveRange(range, Len(s))
    IN  IF r = Panic THEN Panic ELSE Val(Slice(s, r.start, r.end))

\* vec::IntoIter<V>: the buffer and the positions [front, back) still to yield
Vec_into_iter(v) == [buf |-> v.buf, front |-> 0, back |-> Len(v.buf)]

IntoIter_len(i) == i.back - i.front

IntoIter_next(i) ==
    IF i.front = i.back THEN [iter |-> i, item |-> None]
    ELSE [iter |-> [i EXCEPT !.front = i.front + 1], item |-> Some(i.buf[i.front + 1])]

IntoIter_next_back(i) ==
    IF i.front = i.back THEN [iter |-> i, item |-> None]
    ELSE [iter |-> [i EXCEPT !.back = i.back - 1], item |-> Some(i.buf[i.back])]

\* Iterator::enumerate
Enumerate(i) == [iter |-> i, count |-> 0]

Enumerate_next(e) ==
    LET r == IntoIter_next(e.iter)
    IN  IF r.item = None THEN [iter |-> [e EXCEPT !.iter = r.iter], item |-> None]
        ELSE [iter |-> [iter |-> r.iter, count |-> e.count + 1],
              item |-> Some(<<e.count, r.item.val>>)]

Enumerate_next_back(e) ==
    LET r == IntoIter_next_back(e.iter)
    IN  IF r.item = None THEN [iter |-> [e EXCEPT !.iter = r.iter], item |-> None]
        ELSE [iter |-> [e EXCEPT !.iter = r.iter],
              item |-> Some(<<e.count + IntoIter_len(r.iter), r.item.val>>)]

(***************************************************************************)
(* TiSlice<K, V>, the slice view a TiVec dereferences to, and the range    *)
(* adapter TiRangeBounds<K>.                                               *)
(***************************************************************************)
\* TiSlice::from_ref: the same elements under the index type K
TiSlice_from_ref(raw) == [raw |-> raw]

\* slice[index]
TiSlice_index(slice, index) == Slice_index(slice.raw, usize_from_K(index))

\* slice.get(index)
TiSlice_get(slice, index) == Slice_get(slice.raw, usize_from_K(index))

BoundInto(b) == IF b = Unbounded THEN b ELSE [b EXCEPT !.at = usize_from_K(b.at)]

\* TiRangeBounds::into_range: each end keeps its kind, its K becomes a position
into_range(range) == RangeOf(BoundInto(range.start), BoundInto(range.end))

\* slice.binary_search(x): the result of the native search, its position as a K
TiSlice_binary_search(slice, x) ==
    {[r EXCEPT !.val = K_from_usize(r.val)] : r \in Slice_binary_search(slice.raw, x)}

\* slice[range] for a range of K: the sub-slice, under the index type K
TiSlice_index_range(slice, range) ==
    LET r == Slice_index_range(slice.raw, into_range(range))
    IN  IF r = Panic THEN Panic ELSE Val(TiSlice_from_ref(r.val))

(***************************************************************************)
(* TiVec<K, V>                                                             *)
(***************************************************************************)
\* from that starts with an empty raw vector
TiVec_from_empty(vec) == [raw |-> Vec_new, _marker |-> "PhantomData"]

\* impl From<Vec<V>> for TiVec<K, V>
TiVec_from(vec) == [raw |-> vec, _marker |-> "PhantomData"]

\* impl From<TiVec<K, V>> for Vec<V>
Vec_from(vec) == vec.raw

TiVec_new == [raw |-> Vec_new, _marker |-> "PhantomData"]

TiVec_with_capacity(capacity) ==
    [raw |-> Vec_with_capacity(capacity), _marker |-> "PhantomData"]

TiVec_capacity(self) == self.raw.cap

\* a method of &mut self whose body is self.raw.method(..)
OnRaw(self, r) == [vec |-> [self EXCEPT !.raw = r.vec], ret |-> r.ret]

\* reserve that asks the raw vector for no additional element
TiVec_reserve_nothing(self, additional) == OnRaw(self, Vec_reserve(self.raw, 0))

TiVec_reserve(self, additional) == OnRaw(self, Vec_reserve(self.raw, additional))

TiVec_reserve_exact(self, additional) ==
    OnRaw(self, Vec_reserve_exact(self.raw, additional))

TiVec_shrink_to_fit(self) == OnRaw(self, Vec_shrink_to_fit(self.raw))

TiVec_push(self, value) == OnRaw(self, Vec_push(self.raw, value))

TiVec_pop(self) == OnRaw(self, Vec_pop(self.raw))

\* insert that places the element one position late
TiVec_insert_late(self, index, element) ==
    OnRaw(self, Vec_insert(self.raw, usize_from_K(index) + 1, element))

\* insert that clamps a position past the end to the end
TiVec_insert_clamped(self, index, element) ==
    OnRaw(self, Vec_insert(self.raw,
                           IF usize_from_K(index) > Len(self.raw.buf)
                           THEN Len(self.raw.buf) ELSE usize_from_K(index),
                           element))

\* insert that pushes the element and then moves it into place
TiVec_insert_pushing(self, index, element) ==
    LET pushed == Vec_push(self.raw, element).vec
    IN  IF usize_from_K(index) > Len(self.raw.buf)
        THEN [vec |-> [self EXCEPT !.raw = pushed], ret |-> Panic]
        ELSE OnRaw(self, Vec_insert(self.raw, usize_from_K(index), element))

TiVec_insert(self, index, element) ==
    OnRaw(self, Vec_insert(self.raw, usize_from_K(index), element))

\* remove forwarded to Vec::swap_remove
TiVec_remove_swapping(self, index) ==
    OnRaw(self, Vec_swap_remove(self.raw, usize_from_K(index)))

TiVec_remove(self, index) == OnRaw(self, Vec_remove(self.raw, usize_from_K(index)))

\* swap_remove forwarded to Vec::remove
TiVec_swap_remove_shifting(self, index) ==
    OnRaw(self, Vec_remove(self.raw, usize_from_K(index)))

TiVec_swap_remove(self, index) ==
    OnRaw(self, Vec_swap_remove(self.raw, usize_from_K(index)))

TiVec_truncate(self, len) == OnRaw(self, Vec_truncate(self.raw, len))

TiVec_clear(self) == OnRaw(self, Vec_clear(self.raw))

TiVec_retain(self, f) == OnRaw(self, Vec_retain(self.raw, f))

TiVec_dedup(self) == OnRaw(self, Vec_dedup(self.raw))

TiVec_resize(self, new_len, value) == OnRaw(self, Vec_resize(self.raw, new_len, value))

TiVec_append(self, other) ==
    LET r == Vec_append(self.raw, other.raw)
    IN  [vec |-> [self EXCEPT !.raw = r.vec],
         other |-> [other EXCEPT !.raw = r.other],
         ret |-> r.ret]

\* split_off that copies the tail and leaves self whole
TiVec_split_off_copying(self, at) ==
    LET r == Vec_split_off(self.raw, usize_from_K(at))
    IN  [vec |-> self,
         ret |-> IF r.ret = Panic THEN Panic ELSE OwnedTiVec(TiVec_from(r.ret.val))]

TiVec_split_off(self, at) ==
    LET r == Vec_split_off(self.raw, usize_from_K(at))
    IN  [vec |-> [self EXCEPT !.raw = r.vec],
         ret |-> IF r.ret = Panic THEN Panic ELSE OwnedTiVec(TiVec_from(r.ret.val))]

\* drain that drains the whole vector, whatever the range
TiVec_drain_all(self, range) ==
    OnRaw(self, Vec_drain(self.raw, RangeOf(Unbounded, Unbounded)))

\* drain that clamps the ends of the range to the vector instead of failing
TiVec_drain_clamped(self, range) ==
    LET len == Len(self.raw.buf)
        r == into_range(range)
        e == IF r.end = Unbounded THEN len
             ELSE IF r.end.bound = "Included" THEN r.end.at + 1
             ELSE r.end.at
        s == IF r.start = Unbounded THEN 0
             ELSE IF r.start.bound = "Included" THEN r.start.at
             ELSE r.start.at + 1
        end == IF e > len THEN len ELSE e
        start == IF s > end THEN end ELSE s
    IN  OnRaw(self, Vec_drain(self.raw, RangeOf(Included(start), Excluded(end))))

TiVec_drain(self, range) == OnRaw(self, Vec_drain(self.raw, into_range(range)))

TiVec_splice(self, range, replace_with) ==
    OnRaw(self, Vec_splice(self.raw, into_range(range), replace_with))

\* deref to a slice one element longer than the vector
TiVec_deref_past_end(self) == TiSlice_from_ref(Append(Vec_deref(self.raw), 0))

\* deref to the slice after the first element
TiVec_deref_tail(self) ==
    TiSlice_from_ref(IF Vec_deref(self.raw) = <<>> THEN <<>> ELSE Tail(Vec_deref(self.raw)))

\* impl Deref for TiVec<K, V>
TiVec_deref(self) == TiSlice_from_ref(Vec_deref(self.raw))

\* the closure with keys counted from one
KeyInto_one_based(pair) == <<K_from_usize(pair[1] + 1), pair[2]>>

\* the closure of into_iter_enumerated: |(key, value)| (key.into(), value)
KeyInto(pair) == <<K_from_usize(pair[1]), pair[2]>>

\* Map<Enumerate<vec::IntoIter<V>>, _>
TiVec_into_iter_enumerated(self) == [iter |-> Enumerate(Vec_into_iter(self.raw))]

MapItem(r) ==
    [iter |-> [iter |-> r.iter],
     item |-> IF r.item = None THEN None ELSE Some(KeyInto(r.item.val))]

TiEnumerated_next(i) == MapItem(Enumerate_next(i.iter))

\* next_back that pairs each element with the count of elements yielded so far
TiEnumerated_next_back_counting(i) ==
    LET r == IntoIter_next_back(i.iter.iter)
    IN  IF r.item = None
        THEN [iter |-> [iter |-> [i.iter EXCEPT !.iter = r.iter]], item |-> None]
        ELSE [iter |-> [iter |-> [iter |-> r.iter, count |-> i.iter.count + 1]],
              item |-> Some(<<K_from_usize(i.iter.count), r.item.val>>)]

TiEnumerated_next_back(i) == MapItem(Enumerate_next_back(i.iter))

(***************************************************************************)
(* State.                                                                  *)
(***************************************************************************)
VARIABLES
    vecs,     \* the two TiVec<FooId, usize> of the program, by binding
    native,   \* two Vec<usize> that receive the same operations with usize positions
    ret,      \* the value the last TiVec operation returned
    nret,     \* the value the same operation returned on the native Vec
    prev,     \* vecs before the last operation
    op,       \* the last operation and its arguments
    halves,   \* TRUE while the two bindings are the halves of a split_off
    it,       \* the iterator into_iter_enumerated returned, NoIter before
    yielded   \* what the calls of next and next_back on it returned, in call order

vars == <<vecs, native, ret, nret, prev, op, halves, it, yielded>>

NoIter == [live |-> FALSE]

Buf(t) == vecs[t].raw.buf

PrevBuf(t) == prev[t].raw.buf

TotalLen == Len(Buf("a")) + Len(Buf("b"))

\* positions up to one past the position insert and split_off accept
Positions(t) == 0 .. Len(Buf(t)) + 1

Keys(t) == {K_from_usize(p) : p \in Positions(t)}

\* the K-typed ranges of the six range shapes over Keys(t)
KRanges(t) ==
    {RangeOf(s, e) :
        s \in {Unbounded} \cup {Included(k) : k \in Keys(t)},
        e \in {Unbounded} \cup {Included(k) : k \in Keys(t)}
                \cup {Excluded(k) : k \in Keys(t)}}

\* the same range with each K replaced by its position
RangePositions(range) ==
    RangeOf(IF range.start = Unbounded THEN Unbounded
            ELSE [range.start EXCEPT !.at = range.start.at.field0],
            IF range.end = Unbounded THEN Unbounded
            ELSE [range.end EXCEPT !.at = range.end.at.field0])

\* the K-typed ranges of the six range shapes over the first position, the
\* length and one past the length
EdgeRanges(t) ==
    LET keys == {K_from_usize(p) : p \in {0, Len(Buf(t)), Len(Buf(t)) + 1}}
    IN  {RangeOf(s, e) :
            s \in {Unbounded} \cup {Included(k) : k \in keys},
            e \in {Unbounded} \cup {Included(k) : k \in keys}
                    \cup {Excluded(k) : k \in keys}}

\* the replacements a splice is given: ascending runs of at most MaxOther values
Replacements ==
    {s \in UNION {[1 .. n -> Values] : n \in 0 .. MaxOther} :
        \A i \in 1 .. Len(s) - 1 : s[i] < s[i + 1]}

Init ==
    /\ vecs = [t \in Targets |-> TiVec_new]
    /\ native = [t \in Targets |-> Vec_new]
    /\ ret = Unit
    /\ nret = Unit
    /\ prev = [t \in Targets |-> TiVec_new]
    /\ op = [name |-> "new", t |-> "a", args |-> <<>>]
    /\ halves = FALSE
    /\ it = NoIter
    /\ yielded = <<>>

\* a call on vecs[t] alone, and the same call on native[t]
Call(name, t, args, r, n) ==
    /\ vecs' = [vecs EXCEPT ![t] = r.vec]
    /\ native' = [native EXCEPT ![t] = n.vec]
    /\ ret' = r.ret
    /\ nret' = n.ret
    /\ prev' = vecs
    /\ op' = [name |-> name, t |-> t, args |-> args]
    /\ UNCHANGED <<halves, it, yielded>>

Push(t) ==
    \E value \in Values :
        /\ TotalLen < MaxLen
        /\ Call("push", t, <<value>>, TiVec_push(vecs[t], value), Vec_push(native[t], value))

Pop(t) == Call("pop", t, <<>>, TiVec_pop(vecs[t]), Vec_pop(native[t]))

Insert(t) ==
    \E index \in Keys(t), element \in Values :
        /\ TotalLen < MaxLen
        /\ Call("insert", t, <<index, element>>,
                TiVec_insert(vecs[t], index, element),
                Vec_insert(native[t], index.field0, element))

Remove(t) ==
    \E index \in Keys(t) :
        Call("remove", t, <<index>>,
             TiVec_remove(vecs[t], index), Vec_remove(native[t], index.field0))

SwapRemove(t) ==
    \E index \in Keys(t) :
        Call("swap_remove", t, <<index>>,
             TiVec_swap_remove(vecs[t], index), Vec_swap_remove(native[t], index.field0))

Truncate(t) ==
    \E len \in Positions(t) :
        Call("truncate", t, <<len>>,
             TiVec_truncate(vecs[t], len), Vec_truncate(native[t], len))

Clear(t) == Call("clear", t, <<>>, TiVec_clear(vecs[t]), Vec_clear(native[t]))

Retain(t) ==
    \E f \in [rel : {"ne", "lt"}, c : Values] :
        Call("retain", t, <<f>>, TiVec_retain(vecs[t], f), Vec_retain(native[t], f))

DedupOp(t) == Call("dedup", t, <<>>, TiVec_dedup(vecs[t]), Vec_dedup(native[t]))

Resize(t) ==
    \E new_len \in 0 .. Len(Buf(t)) + 2, value \in Values :
        /\ TotalLen - Len(Buf(t)) + new_len <= MaxLen
        /\ Call("resize", t, <<new_len, value>>,
                TiVec_resize(vecs[t], new_len, value),
                Vec_resize(native[t], new_len, value))

Drain(t) ==
    \E range \in KRanges(t) :
        Call("drain", t, <<range>>,
             TiVec_drain(vecs[t], range), Vec_drain(native[t], RangePositions(range)))

\* vecs[t].splice(range, replace_with), the Splice consumed and dropped
Splice(t) ==
    \E range \in EdgeRanges(t), replace_with \in Replacements :
        /\ TotalLen + Len(replace_with) <= MaxLen
        /\ Call("splice", t, <<range, replace_with>>,
                TiVec_splice(vecs[t], range, replace_with),
                Vec_splice(native[t], RangePositions(range), replace_with))

\* vecs[t] = TiVec::with_capacity(capacity), beside native[t] = Vec::with_capacity(capacity)
WithCapacity(t) ==
    \E capacity \in 0 .. MaxExtra :
        /\ vecs' = [vecs EXCEPT ![t] = TiVec_with_capacity(capacity)]
        /\ native' = [native EXCEPT ![t] = Vec_with_capacity(capacity)]
        /\ ret' = OwnedTiVec(TiVec_with_capacity(capacity))
        /\ nret' = OwnedVec(Vec_with_capacity(capacity))
        /\ prev' = vecs
        /\ op' = [name |-> "with_capacity", t |-> t, args |-> <<capacity>>]
        /\ UNCHANGED <<halves, it, yielded>>

Reserve(t) ==
    \E additional \in 0 .. MaxExtra :
        Call("reserve", t, <<additional>>,
             TiVec_reserve(vecs[t], additional), Vec_reserve(native[t], additional))

ReserveExact(t) ==
    \E additional \in 0 .. MaxExtra :
        Call("reserve_exact", t, <<additional>>,
             TiVec_reserve_exact(vecs[t], additional),
             Vec_reserve_exact(native[t], additional))

ShrinkToFit(t) ==
    Call("shrink_to_fit", t, <<>>,
         TiVec_shrink_to_fit(vecs[t]), Vec_shrink_to_fit(native[t]))

\* vecs[t].append(&mut vecs[Other(t)])
AppendOp(t) ==
    LET r == TiVec_append(vecs[t], vecs[Other(t)])
        n == Vec_append(native[t], native[Other(t)])
    IN  /\ vecs' = [vecs EXCEPT ![t] = r.vec, ![Other(t)] = r.other]
        /\ native' = [native EXCEPT ![t] = n.vec, ![Other(t)] = n.other]
        /\ ret' = r.ret
        /\ nret' = n.ret
        /\ prev' = vecs
        /\ op' = [name |-> "append_binding", t |-> t, args |-> <<>>]
        /\ halves' = FALSE
        /\ UNCHANGED <<it, yielded>>

\* vecs[t].append(&mut other) for a vector other made for the call
AppendFrom(t) ==
    \E s \in UNION {[1 .. n -> Values] : n \in 0 .. MaxOther} :
        LET r == TiVec_append(vecs[t], TiVec_from(Vec_lit(s)))
            n == Vec_append(native[t], Vec_lit(s))
        IN  /\ TotalLen + Len(s) <= MaxLen
            /\ vecs' = [vecs EXCEPT ![t] = r.vec]
            /\ native' = [native EXCEPT ![t] = n.vec]
            /\ ret' = OwnedTiVec(r.other)
            /\ nret' = OwnedVec(n.other)
            /\ prev' = vecs
            /\ op' = [name |-> "append", t |-> t, args |-> <<s>>]
            /\ UNCHANGED <<halves, it, yielded>>

\* vecs[t].split_off(at); with bind the other binding takes the returned vector
\* (what it held is dropped), without it the returned vector is dropped
SplitOff(t, bind) ==
    \E at \in Keys(t) :
        LET r == TiVec_split_off(vecs[t], at)
            n == Vec_split_off(native[t], at.field0)
            keep == bind /\ r.ret # Panic
        IN  /\ vecs' = IF keep THEN [vecs EXCEPT ![t] = r.vec, ![Other(t)] = r.ret.val]
                       ELSE [vecs EXCEPT ![t] = r.vec]
            /\ native' = IF keep THEN [native EXCEPT ![t] = n.vec, ![Other(t)] = n.ret.val]
                         ELSE [native EXCEPT ![t] = n.vec]
            /\ ret' = r.ret
            /\ nret' = n.ret
            /\ prev' = vecs
            /\ op' = [name |-> "split_off", t |-> t, args |-> <<at>>]
            /\ halves' = IF keep THEN TRUE ELSE halves
            /\ UNCHANGED <<it, yielded>>

\* vecs[t][K::from(p)], beside vecs[t].raw[p]
IndexOp(t) ==
    \E p \in Positions(t) :
        /\ vecs' = vecs
        /\ native' = native
        /\ ret' = TiSlice_index(TiVec_deref(vecs[t]), K_from_usize(p))
        /\ nret' = Slice_index(Vec_deref(vecs[t].raw), p)
        /\ prev' = vecs
        /\ op' = [name |-> "index", t |-> t, args |-> <<p, K_from_usize(p)>>]
        /\ UNCHANGED <<halves, it, yielded>>

\* &vecs[t][range] for a range of K, beside &vecs[t].raw[range] over positions
IndexRange(t) ==
    \E range \in KRanges(t) :
        /\ vecs' = vecs
        /\ native' = native
        /\ ret' = TiSlice_index_range(TiVec_deref(vecs[t]), range)
        /\ nret' = Slice_index_range(Vec_deref(vecs[t].raw), RangePositions(range))
        /\ prev' = vecs
        /\ op' = [name |-> "index_range", t |-> t, args |-> <<range>>]
        /\ UNCHANGED <<halves, it, yielded>>

\* vecs[t].get(K::from(p)), beside vecs[t].raw.get(p)
GetOp(t) ==
    \E p \in Positions(t) :
        /\ vecs' = vecs
        /\ native' = native
        /\ ret' = TiSlice_get(TiVec_deref(vecs[t]), K_from_usize(p))
        /\ nret' = Slice_get(Vec_deref(vecs[t].raw), p)
        /\ prev' = vecs
        /\ op' = [name |-> "get", t |-> t, args |-> <<p, K_from_usize(p)>>]
        /\ UNCHANGED <<halves, it, yielded>>

\* vecs[t].binary_search(&x) on a sorted vector, beside vecs[t].raw.binary_search(&x)
BinarySearch(t) ==
    \E x \in Values :
        \E r \in TiSlice_binary_search(TiVec_deref(vecs[t]), x),
           n \in Slice_binary_search(Vec_deref(vecs[t].raw), x) :
            /\ IsSorted(Buf(t))
            /\ vecs' = vecs
            /\ native' = native
            /\ ret' = r
            /\ nret' = n
            /\ prev' = vecs
            /\ op' = [name |-> "binary_search", t |-> t, args |-> <<x>>]
            /\ UNCHANGED <<halves, it, yielded>>

\* vecs[t] = Vec::from(vecs[t]).into() and native[t] = TiVec::from(native[t]).into():
\* ret is the Vec the TiVec went through, nret the Vec that went in
Convert(t) ==
    /\ vecs' = [vecs EXCEPT ![t] = TiVec_from(Vec_from(vecs[t]))]
    /\ native' = [native EXCEPT ![t] = Vec_from(TiVec_from(native[t]))]
    /\ ret' = OwnedVec(Vec_from(vecs[t]))
    /\ nret' = OwnedVec(native[t])
    /\ prev' = vecs
    /\ op' = [name |-> "convert", t |-> t, args |-> <<>>]
    /\ UNCHANGED <<halves, it, yielded>>

\* One vector: every operation on the binding a.
Next ==
    \/ Push("a")
    \/ Pop("a")
    \/ AppendFrom("a")
    \/ SplitOff("a", FALSE)
    \/ Insert("a")
    \/ Remove("a")
    \/ SwapRemove("a")
    \/ Truncate("a")
    \/ Clear("a")
    \/ Retain("a")
    \/ DedupOp("a")
    \/ Resize("a")
    \/ Drain("a")
    \/ IndexOp("a")
    \/ GetOp("a")
    \/ Convert("a")

Spec == Init /\ [][Next]_vars

\* Two vectors: "a" is split into "b", "b" is appended back to "a", and either
\* binding is mutated.
NextTwo ==
    \/ \E t \in Targets :
           \/ Push(t)
           \/ Pop(t)
           \/ Insert(t)
           \/ Remove(t)
           \/ Clear(t)
    \/ AppendOp("a")
    \/ SplitOff("a", TRUE)

SpecTwo == Init /\ [][NextTwo]_vars

(***************************************************************************)
(* Capacity and ranges.  Neither depends on the values of the elements, so *)
(* these two specifications keep to the runs where the vectors hold one    *)
(* repeated value.                                                         *)
(***************************************************************************)
Uniform == \A t \in Targets : \A i \in 1 .. Len(Buf(t)) : Buf(t)[i] = Buf(t)[1]

\* One vector is built with or without capacity, grown and shrunk, and its
\* capacity reserved and given back.
NextCap ==
    \/ WithCapacity("a") /\ Uniform'
    \/ Reserve("a") /\ Uniform'
    \/ ReserveExact("a") /\ Uniform'
    \/ ShrinkToFit("a") /\ Uniform'
    \/ Push("a") /\ Uniform'
    \/ Pop("a") /\ Uniform'
    \/ Insert("a") /\ Uniform'
    \/ Remove("a") /\ Uniform'
    \/ Retain("a") /\ Uniform'
    \/ Truncate("a") /\ Uniform'
    \/ AppendFrom("a") /\ Uniform'
    \/ Drain("a") /\ Uniform'
    \/ Splice("a") /\ Uniform'

SpecCap == Init /\ [][NextCap]_vars

\* One vector is grown and shrunk, and ranges of it are read, drained and spliced.
NextRange ==
    \/ Push("a") /\ Uniform'
    \/ Pop("a") /\ Uniform'
    \/ IndexRange("a") /\ Uniform'
    \/ Drain("a") /\ Uniform'
    \/ Splice("a") /\ Uniform'

SpecRange == Init /\ [][NextRange]_vars

\* One vector is grown and shrunk, and searched while it is sorted.
NextSearch ==
    \/ Push("a")
    \/ Pop("a")
    \/ Insert("a")
    \/ BinarySearch("a")

SpecSearch == Init /\ [][NextSearch]_vars

(***************************************************************************)
(* Enumerated iteration: a vector built from a native Vec is consumed by   *)
(* into_iter_enumerated, and the iterator is stepped from either end.      *)
(***************************************************************************)
InitIter ==
    \E s \in UNION {[1 .. n -> Values] : n \in 0 .. MaxLen} :
        /\ vecs = [t \in Targets |-> IF t = "a" THEN TiVec_from(Vec_lit(s)) ELSE TiVec_new]
        /\ native = [t \in Targets |-> IF t = "a" THEN Vec_lit(s) ELSE Vec_new]
        /\ ret = Unit
        /\ nret = Unit
        /\ prev = [t \in Targets |-> TiVec_new]
        /\ op = [name |-> "from", t |-> "a", args |-> <<s>>]
        /\ halves = FALSE
        /\ it = NoIter
        /\ yielded = <<>>

\* it = vecs[t].into_iter_enumerated(): the vector moves into the iterator and
\* no later step reads the binding
IntoIterEnumerated(t) ==
    /\ it = NoIter
    /\ it' = TiVec_into_iter_enumerated(vecs[t])
    /\ yielded' = <<>>
    /\ prev' = vecs
    /\ op' = [name |-> "into_iter_enumerated", t |-> t, args |-> <<>>]
    /\ UNCHANGED <<vecs, native, ret, nret, halves>>

\* one more call than there are elements shows the end, two that it stays ended
Step(end, r) ==
    /\ it # NoIter
    /\ Len(yielded) < Len(PrevBuf(op.t)) + 2
    /\ it' = r.iter
    /\ yielded' = Append(yielded, [end |-> end, item |-> r.item])
    /\ ret' = r.item
    /\ op' = [op EXCEPT !.name = end]
    /\ UNCHANGED <<vecs, native, nret, prev, halves>>

\* it.next()
IterNext == Step("next", TiEnumerated_next(it))

\* it.next_back(), which is it.rev().next()
IterNextBack == Step("next_back", TiEnumerated_next_back(it))

NextIter ==
    \/ IntoIterEnumerated("a")
    \/ IterNext
    \/ IterNextBack

SpecIter == InitIter /\ [][NextIter]_vars

(***************************************************************************)
(* Properties.                                                             *)
(***************************************************************************)
\* the position of the key the last operation took
KeyPos == op.args[1].field0

\* a returned TiVec seen as the Vec it wraps
AsNative(r) == IF r.tag = "TiVec" THEN OwnedVec(r.val.raw) ELSE r

RefinedOps ==
    {"push", "pop", "insert", "remove", "swap_remove", "truncate", "clear", "append",
     "split_off", "resize", "retain", "dedup", "drain"}

\* C1: after every sequence of push, pop, insert, remove, swap_remove, truncate,
\* clear, append, split_off, resize, retain, dedup and drain with K arguments, the
\* TiVec holds the elements of the native Vec that took the same operations with
\* each K replaced by its position, and every operation returned the same value.
C1_Refinement ==
    /\ \A t \in Targets : vecs[t].raw = native[t]
    /\ op.name \in RefinedOps => AsNative(ret) = nret

C1_Witness ==
    /\ op.name = "swap_remove"
    /\ op.args = <<FooId(0)>>
    /\ PrevBuf("a") = <<10, 11, 12>>
    /\ Buf("a") = <<12, 11>>
    /\ ret = Val(10)

\* C2: insert(K(i), v) with 0 <= i <= n on a vector of length n succeeds, makes the
\* length n + 1, makes access at K(i) return v, leaves the elements before i in
\* place and moves each element formerly at j >= i to j + 1.
C2_Insert ==
    op.name = "insert" =>
        LET s == PrevBuf(op.t)
            s2 == Buf(op.t)
            i == KeyPos
        IN  i <= Len(s) =>
                /\ ret = Unit
                /\ Len(s2) = Len(s) + 1
                /\ TiSlice_index(TiVec_deref(vecs[op.t]), op.args[1]) = Val(op.args[2])
                /\ \A j \in 0 .. i - 1 : s2[j + 1] = s[j + 1]
                /\ \A j \in i .. Len(s) - 1 : s2[j + 2] = s[j + 1]

C2_Witness ==
    /\ op.name = "insert"
    /\ op.args = <<FooId(1), 11>>
    /\ PrevBuf("a") = <<10, 12>>
    /\ Buf("a") = <<10, 11, 12>>

\* C3: remove(K(i)) with 0 <= i < n on a vector of length n returns the value that
\* was at position i, makes the length n - 1, leaves the elements before i in place
\* and moves each element formerly at j > i to j - 1.
C3_Remove ==
    op.name = "remove" =>
        LET s == PrevBuf(op.t)
            s2 == Buf(op.t)
            i == KeyPos
        IN  i < Len(s) =>
                /\ ret = Val(s[i + 1])
                /\ Len(s2) = Len(s) - 1
                /\ \A j \in 0 .. i - 1 : s2[j + 1] = s[j + 1]
                /\ \A j \in i + 1 .. Len(s) - 1 : s2[j] = s[j + 1]

C3_Witness ==
    /\ op.name = "remove"
    /\ op.args = <<FooId(0)>>
    /\ PrevBuf("a") = <<10, 11, 12>>
    /\ Buf("a") = <<11, 12>>
    /\ ret = Val(10)

\* C4: insert fails with an out-of-bounds panic exactly when the position of its
\* key is greater than the length, remove and swap_remove exactly when it is not
\* less than the length, on empty and non-empty vectors.
C4_OutOfBounds ==
    /\ op.name = "insert" => ((ret = Panic) <=> (KeyPos > Len(PrevBuf(op.t))))
    /\ op.name \in {"remove", "swap_remove"} =>
           ((ret = Panic) <=> (KeyPos >= Len(PrevBuf(op.t))))

C4_Witness ==
    /\ op.name = "insert"
    /\ PrevBuf("a") = <<10, 11>>
    /\ KeyPos = 3
    /\ ret = Panic

\* C5: for every key whose position is not less than the length, indexing panics
\* and get returns None, whatever mutations the vector has gone through.
C5_AccessOutOfBounds ==
    /\ (op.name = "index" /\ op.args[1] >= Len(Buf(op.t))) => ret = Panic
    /\ (op.name = "get" /\ op.args[1] >= Len(Buf(op.t))) => ret = None

C5_Witness ==
    /\ op.name = "get"
    /\ Buf("a") = <<10, 11>>
    /\ op.args = <<2, FooId(2)>>
    /\ ret = None

\* C6: for every position p below the length, p converted to K and back is p, and
\* indexing the TiVec by that K gives the element of the raw Vec at p.
C6_ValidAccess ==
    (op.name = "index" /\ op.args[1] < Len(Buf(op.t))) =>
        LET p == op.args[1]
        IN  /\ usize_from_K(K_from_usize(p)) = p
            /\ usize_from_K(op.args[2]) = p
            /\ ret = Val(vecs[op.t].raw.buf[p + 1])
            /\ ret = nret

C6_Witness ==
    /\ op.name = "index"
    /\ Buf("a") = <<10, 11, 12>>
    /\ op.args = <<1, FooId(1)>>
    /\ ret = Val(11)

\* C7: a Vec converted into a TiVec and back has the length and, at every position,
\* the element of the original, and a TiVec converted into a Vec and back is equal
\* to the original.
C7_RoundTrip ==
    op.name = "convert" =>
        LET before == nret.val.buf
            after == native[op.t].buf
        IN  /\ Len(after) = Len(before)
            /\ \A j \in 1 .. Len(before) : after[j] = before[j]
            /\ vecs[op.t] = prev[op.t]

C7_Witness ==
    /\ op.name = "convert"
    /\ PrevBuf("a") = <<10, 11, 12>>
    /\ native["a"].buf = <<10, 11, 12>>

\* C8: while only next is called on the enumerated iterator of a vector holding
\* v0..v(n-1), the j-th call (from 0) returns (K(j), vj) for j < n, and every call
\* after the n-th returns None.
C8_Enumerated ==
    \A j \in 1 .. Len(yielded) :
        (\A i \in 1 .. j : yielded[i].end = "next") =>
            yielded[j].item = IF j <= Len(PrevBuf(op.t))
                              THEN Some(<<FooId(j - 1), PrevBuf(op.t)[j]>>)
                              ELSE None

C8_Witness ==
    /\ PrevBuf("a") = <<10, 11, 12>>
    /\ Len(yielded) = 4
    /\ \A i \in 1 .. 4 : yielded[i].end = "next"

\* C9: while only next_back is called (reverse iteration), the j-th call (from 0)
\* returns (K(n-1-j), v(n-1-j)), each element with the K of its own position, and
\* every call after the n-th returns None.
C9_ReverseEnumerated ==
    \A j \in 1 .. Len(yielded) :
        (\A i \in 1 .. j : yielded[i].end = "next_back") =>
            LET n == Len(PrevBuf(op.t))
            IN  yielded[j].item = IF j <= n
                                  THEN Some(<<FooId(n - j), PrevBuf(op.t)[n - j + 1]>>)
                                  ELSE None

C9_Witness ==
    /\ PrevBuf("a") = <<10, 11, 12>>
    /\ Len(yielded) = 4
    /\ \A i \in 1 .. 4 : yielded[i].end = "next_back"

\* C10: split_off(K(i)) with 0 <= i <= n on a vector holding s of length n leaves
\* it holding s[0..i) and returns a vector holding s[i..n); it panics when i > n;
\* and while the two bindings are the halves of a split, a mutation of one leaves
\* the other as it was.
C10_SplitOff ==
    /\ op.name = "split_off" =>
           LET s == PrevBuf(op.t)
               i == KeyPos
           IN  /\ i > Len(s) => ret = Panic
               /\ i <= Len(s) =>
                      /\ ret.tag = "TiVec"
                      /\ Len(Buf(op.t)) = i
                      /\ \A j \in 1 .. i : Buf(op.t)[j] = s[j]
                      /\ Len(ret.val.raw.buf) = Len(s) - i
                      /\ \A j \in 1 .. Len(s) - i : ret.val.raw.buf[j] = s[i + j]
                      /\ Buf(op.t) \o ret.val.raw.buf = s
                      /\ vecs[Other(op.t)] = ret.val
    /\ (halves /\ op.name \in {"push", "pop", "insert", "remove", "clear"}) =>
           vecs[Other(op.t)] = prev[Other(op.t)]

C10_Witness ==
    /\ halves
    /\ op.name = "remove"
    /\ op.t = "b"
    /\ ret = Val(11)
    /\ Buf("a") = <<10>>
    /\ Buf("b") = <<12>>

\* C11: in every state the operations reach, from a construction empty or with a
\* capacity, the capacity of a vector is at least its length; and right after
\* reserve(additional) or reserve_exact(additional) the capacity is at least the
\* length plus additional, with the length and the elements as they were.
C11_Capacity ==
    /\ \A t \in Targets : TiVec_capacity(vecs[t]) >= Len(Buf(t))
    /\ op.name \in {"reserve", "reserve_exact"} =>
           /\ TiVec_capacity(vecs[op.t]) >= Len(Buf(op.t)) + op.args[1]
           /\ Buf(op.t) = PrevBuf(op.t)

C11_Witness ==
    /\ op.name = "reserve"
    /\ op.args = <<2>>
    /\ PrevBuf("a") = <<10, 10, 10>>
    /\ TiVec_capacity(prev["a"]) = 4
    /\ TiVec_capacity(vecs["a"]) = 8

\* the half-open positions [RangeStart, RangeEnd) that the K-typed range of the
\* last call stands for on a vector of length len
RangeStart ==
    LET b == op.args[1].start
    IN  IF b = Unbounded THEN 0
        ELSE IF b.bound = "Included" THEN b.at.field0
        ELSE b.at.field0 + 1

RangeEnd(len) ==
    LET b == op.args[1].end
    IN  IF b = Unbounded THEN len
        ELSE IF b.bound = "Included" THEN b.at.field0 + 1
        ELSE b.at.field0

\* C12: drain over a K-typed range takes the half-open positions [start, end),
\* an unbounded start being 0, an unbounded end the length at the call and an
\* inclusive end K(e) being e + 1; consumed to its end it has yielded the
\* elements formerly at [start, end) in order, and the vector holds the elements
\* formerly before start followed by those formerly at or after end.
C12_Drain ==
    op.name = "drain" =>
        LET s == PrevBuf(op.t)
            start == RangeStart
            end == RangeEnd(Len(s))
        IN  (start <= end /\ end <= Len(s)) =>
                /\ ret.tag = "Items"
                /\ Len(ret.val) = end - start
                /\ \A j \in 1 .. end - start : ret.val[j] = s[start + j]
                /\ Len(Buf(op.t)) = Len(s) - (end - start)
                /\ \A j \in 1 .. start : Buf(op.t)[j] = s[j]
                /\ \A j \in 1 .. Len(s) - end : Buf(op.t)[start + j] = s[end + j]

C12_Witness ==
    /\ op.name = "drain"
    /\ op.args = <<RangeOf(Included(FooId(1)), Included(FooId(1)))>>
    /\ PrevBuf("a") = <<10, 11, 12>>
    /\ ret = Items(<<11>>)
    /\ Buf("a") = <<10, 12>>

\* C13: range access, drain and splice over a K-typed range panic whenever the
\* positions [start, end) the range stands for have start > end or end past the
\* length, and the vector is then as it was: the range is never clamped.
C13_RangePanics ==
    op.name \in {"index_range", "drain", "splice"} =>
        LET len == Len(PrevBuf(op.t))
        IN  (RangeStart > RangeEnd(len) \/ RangeEnd(len) > len) =>
                /\ ret = Panic
                /\ vecs[op.t] = prev[op.t]

C13_Witness ==
    /\ op.name = "drain"
    /\ op.args = <<RangeOf(Unbounded, Included(FooId(2)))>>
    /\ PrevBuf("a") = <<10, 10>>
    /\ ret = Panic
    /\ Buf("a") = <<10, 10>>

\* C14: binary_search for x in a vector sorted in ascending order returns, when
\* x is present, Ok of a K whose position holds x and, when x is absent, Err of
\* the K of the position where x keeps the vector sorted: every element before
\* it is less than x and every element at or after it is greater; the position
\* of the returned K is in [0, length].
C14_BinarySearch ==
    (op.name = "binary_search" /\ IsSorted(Buf(op.t))) =>
        LET s == Buf(op.t)
            x == op.args[1]
            p == ret.val.field0
        IN  /\ ret.tag \in {"Ok", "Err"}
            /\ p \in 0 .. Len(s)
            /\ (\E i \in 1 .. Len(s) : s[i] = x) =>
                   (ret.tag = "Ok" /\ p < Len(s) /\ s[p + 1] = x)
            /\ ~(\E i \in 1 .. Len(s) : s[i] = x) =>
                   /\ ret.tag = "Err"
                   /\ \A j \in 1 .. p : s[j] < x
                   /\ \A j \in p + 1 .. Len(s) : s[j] > x

C14_Witness ==
    /\ op.name = "binary_search"
    /\ op.args = <<11>>
    /\ Buf("a") = <<10, 12, 12>>
    /\ ret = Err(FooId(1))

\* C15 as it is stated: swap_remove(K(i)) with 0 <= i < n returns the element
\* formerly at i, makes the length n - 1 and shifts: the elements before i stay
\* and each element formerly at a position j > i ends at position j - 1.
C15_Shifting ==
    (op.name = "swap_remove" /\ KeyPos < Len(PrevBuf(op.t))) =>
        LET s == PrevBuf(op.t)
            i == KeyPos
        IN  /\ ret = Val(s[i + 1])
            /\ Len(Buf(op.t)) = Len(s) - 1
            /\ \A j \in 0 .. i - 1 : Buf(op.t)[j + 1] = s[j + 1]
            /\ \A j \in i + 1 .. Len(s) - 1 : Buf(op.t)[j] = s[j + 1]

\* C15: swap_remove(K(i)) with 0 <= i < n returns the element formerly at i and
\* makes the length n - 1; the element formerly last takes position i when i was
\* not the last position, and every other element stays at its position.
C15_SwapRemove ==
    (op.name = "swap_remove" /\ KeyPos < Len(PrevBuf(op.t))) =>
        LET s == PrevBuf(op.t)
            i == KeyPos
        IN  /\ ret = Val(s[i + 1])
            /\ Len(Buf(op.t)) = Len(s) - 1
            /\ i < Len(s) - 1 => Buf(op.t)[i + 1] = s[Len(s)]
            /\ \A j \in 0 .. Len(s) - 2 : j # i => Buf(op.t)[j + 1] = s[j + 1]

C15_Witness ==
    /\ op.name = "swap_remove"
    /\ op.args = <<FooId(0)>>
    /\ PrevBuf("a") = <<11, 10, 12>>
    /\ ret = Val(11)
    /\ Buf("a") = <<12, 10>>

\* C16: insert and split_off at a position past the length, and remove and
\* swap_remove at a position at or past it, panic and leave the length and every
\* element of the vector as they were; pop on an empty vector returns None and
\* leaves the vector empty.
C16_Frame ==
    /\ (op.name \in {"insert", "split_off"} /\ KeyPos > Len(PrevBuf(op.t))) =>
           (ret = Panic /\ Buf(op.t) = PrevBuf(op.t))
    /\ (op.name \in {"remove", "swap_remove"} /\ KeyPos >= Len(PrevBuf(op.t))) =>
           (ret = Panic /\ Buf(op.t) = PrevBuf(op.t))
    /\ (op.name = "pop" /\ PrevBuf(op.t) = <<>>) =>
           (ret = None /\ Buf(op.t) = <<>>)

C16_Witness ==
    /\ op.name = "insert"
    /\ op.args = <<FooId(3), 12>>
    /\ PrevBuf("a") = <<10, 11>>
    /\ ret = Panic
    /\ Buf("a") = <<10, 11>>

====
